---- MODULE Spec2Model ----
(***************************************************************************)
(* Model of api/index.py: a FastAPI application (five routes, three        *)
(* request schemas, three response schemas, one CORS middleware) served    *)
(* through the Mangum event adapter.                                       *)
(*                                                                         *)
(* One invocation travels  idle -> received -> (returned ->) replied.      *)
(* Strings that the code builds or measures (value, data, analysisMode,    *)
(* encryptedValue) are sequences of one-character strings.  Floats are     *)
(* kept in hundredths (0.85 is 85, the bound 1.0 is 100).  Header names    *)
(* are lower case, as the ASGI layer carries them.  The logger is a        *)
(* write-only sink and is not modelled.  The construction of the adapter   *)
(* (the Mangum(...) call) is taken to succeed with the keywords given.     *)
(* What the framework does on behalf of a declaration (routing, request    *)
(* and response validation, the default error replies, the CORS            *)
(* middleware) is modelled at the declaration that asks for it.            *)
(***************************************************************************)
EXTENDS Integers, Sequences, FiniteSets, TLC

(* ------------------------------ bounds --------------------------------- *)
MaxLen == 2
MaxTicks == 2
NumInv == 2

Inv == 1..NumInv
Chars == {"a", "_"}
Origin == "https://a.example"

(* ------------------------- strings as sequences ------------------------ *)
Strings(n) == UNION {[1..k -> Chars] : k \in 0..n}

IsPrefix(p, s) == Len(p) <= Len(s) /\ SubSeq(s, 1, Len(p)) = p

Contains(s, sub) ==
  \E k \in 0..(Len(s) - Len(sub)) : SubSeq(s, k + 1, k + Len(sub)) = sub

Digits == <<"0", "1", "2", "3", "4", "5", "6", "7", "8", "9">>

RECURSIVE Str(_)
Str(n) == IF n < 10 THEN <<Digits[n + 1]>>
          ELSE Str(n \div 10) \o <<Digits[(n % 10) + 1]>>

IsDigit(c) == \E k \in 1..Len(Digits) : Digits[k] = c

RECURSIVE StripDigits(_)
StripDigits(s) == IF s # <<>> /\ IsDigit(s[Len(s)])
                  THEN StripDigits(SubSeq(s, 1, Len(s) - 1))
                  ELSE s

(* ------------------------------ JSON values ---------------------------- *)
(* kind "list" stands for a non-empty list of scalars, which no field of   *)
(* the request models accepts; a mapping is known by its "type" key.       *)
JAbsent == [kind |-> "absent", str |-> <<>>, hasType |-> FALSE, type |-> ""]
JStr(s) == [kind |-> "str", str |-> s, hasType |-> FALSE, type |-> ""]
JList == [kind |-> "list", str |-> <<>>, hasType |-> FALSE, type |-> ""]
JMap(has, t) == [kind |-> "map", str |-> <<>>, hasType |-> has, type |-> t]

DataTypes == {"tle", "unknown"}
JMaps == {JMap(FALSE, "")} \cup {JMap(TRUE, t) : t \in DataTypes}
JValues == {JStr(s) : s \in Strings(MaxLen)} \cup {JList} \cup JMaps

DefaultMode == <<"o","r","b","i","t","a","l","_","p","r","e","d","i","c","t","i","o","n">>
Prefix == <<"e","n","c","r","y","p","t","e","d","_">>

(* --------------------------- invocation events ------------------------- *)
(* A path is its segments plus whether it ends in a slash; "/" has no      *)
(* segment and no trailing slash.                                          *)
Path(segs, trail) == [segs |-> segs, trail |-> trail]
RootPath == Path(<<>>, FALSE)

Paths == {RootPath, Path(<<"health">>, FALSE), Path(<<"verify">>, FALSE),
          Path(<<"encrypt">>, FALSE), Path(<<"analyze">>, FALSE),
          Path(<<"docs">>, FALSE), Path(<<"nope">>, FALSE),
          Path(<<"health">>, TRUE)}

Methods == {"GET", "POST", "OPTIONS", "DELETE"}

Body(present, value, data, mode) ==
  [present |-> present, value |-> value, data |-> data, analysisMode |-> mode]
NoBody == Body(FALSE, JAbsent, JAbsent, JAbsent)

Modes == {JStr(<<"a">>), JList}

Bodies == {NoBody, Body(TRUE, JAbsent, JAbsent, JAbsent)}
          \cup {Body(TRUE, v, JAbsent, JAbsent) : v \in JValues}
          \cup {Body(TRUE, JAbsent, d, JAbsent) : d \in JValues}
          \cup {Body(TRUE, JAbsent, d, m) : d \in JValues, m \in Modes}

Event(method, path, origin, cookie, acrm, body) ==
  [method |-> method, path |-> path, origin |-> origin, cookie |-> cookie,
   acrm |-> acrm, body |-> body]

(* origin "none": the event has no Origin header; acrm "none": no          *)
(* Access-Control-Request-Method header.                                   *)
HeaderSets == {<<"none", FALSE>>, <<Origin, FALSE>>, <<Origin, TRUE>>}

(* A mapping field given the empty string is left out: pydantic 1 turns it *)
(* into the empty mapping, pydantic 2 rejects it.                          *)
Ambiguous(path, body) ==
  path = Path(<<"verify">>, FALSE) /\ body.data = JStr(<<>>)

Events ==
  {Event(m, p, h[1], h[2], "none", NoBody) :
      m \in {"GET", "DELETE"}, p \in Paths, h \in HeaderSets}
  \cup {Event("OPTIONS", p, h[1], h[2], a, NoBody) :
      p \in Paths, h \in HeaderSets, a \in {"none", "POST", "TRACE"}}
  \cup {e \in {Event("POST", p, h[1], h[2], "none", b) :
      p \in Paths, h \in HeaderSets, b \in Bodies} : ~Ambiguous(e.path, e.body)}

NoEvent == Event("GET", RootPath, "none", FALSE, "none", NoBody)

(* ------------------------ process configuration ------------------------ *)
Route(path, methods, endpoint) ==
  [path |-> path, methods |-> methods, endpoint |-> endpoint]

RouteTable ==
  << Route(Path(<<"openapi.json">>, FALSE), {"GET", "HEAD"}, "openapi"),
     Route(Path(<<"docs">>, FALSE), {"GET", "HEAD"}, "swagger_ui_html"),
     Route(Path(<<"docs", "oauth2-redirect">>, FALSE), {"GET", "HEAD"}, "swagger_ui_redirect"),
     Route(Path(<<"redoc">>, FALSE), {"GET", "HEAD"}, "redoc_html"),
     Route(RootPath, {"GET"}, "root"),
     Route(Path(<<"health">>, FALSE), {"GET"}, "health_check"),
     Route(Path(<<"verify">>, FALSE), {"POST"}, "verify_data"),
     Route(Path(<<"encrypt">>, FALSE), {"POST"}, "encrypt_data"),
     Route(Path(<<"analyze">>, FALSE), {"POST"}, "analyze_data") >>

CorsPolicy ==
  [allow_origins |-> {"*"}, allow_credentials |-> TRUE,
   allow_methods |-> {"*"}, allow_headers |-> {"*"}]

Schemas ==
  [value_min_length |-> 1, data_min_length |-> 1, default_mode |-> DefaultMode,
   likelihood_ge |-> 0, likelihood_le |-> 100,
   confidence_ge |-> 0, confidence_le |-> 100]

AppConfig == [routes |-> RouteTable, cors |-> CorsPolicy, schemas |-> Schemas]

Handlers == {"root", "health_check", "verify_data", "encrypt_data", "analyze_data"}
DocEndpoints == {"openapi", "swagger_ui_html", "swagger_ui_redirect", "redoc_html"}

VARIABLES pc, event, fault, request, result, reply, outcome, ran, now, config
vars == <<pc, event, fault, request, result, reply, outcome, ran, now, config>>

(* ------------------------------- routing ------------------------------- *)
(* Mutant: a path registered under another method counts as no match. *)
Match_NoPartial(route, method, path) ==
  IF route.path = path /\ method \in route.methods THEN "FULL" ELSE "NONE"

Match(route, method, path) ==
  IF route.path # path THEN "NONE"
  ELSE IF method \in route.methods THEN "FULL" ELSE "PARTIAL"

ToggleSlash(path) == [path EXCEPT !.trail = ~@]

Least(S) == CHOOSE k \in S : \A j \in S : k <= j

(* The first full match; failing that the first route whose path matches   *)
(* with another method; failing that a redirect when the path with its     *)
(* trailing slash toggled matches some route; failing that nothing.        *)
Resolve(method, path) ==
  LET routes == config.routes
      full == {k \in 1..Len(routes) : Match(routes[k], method, path) = "FULL"}
      partial == {k \in 1..Len(routes) : Match(routes[k], method, path) = "PARTIAL"}
      slashed == {k \in 1..Len(routes) :
                    Match(routes[k], method, ToggleSlash(path)) # "NONE"}
  IN  IF full # {}
      THEN [kind |-> "full", endpoint |-> routes[Least(full)].endpoint]
      ELSE IF partial # {}
      THEN [kind |-> "partial", endpoint |-> routes[Least(partial)].endpoint]
      ELSE IF path # RootPath /\ slashed # {}
      THEN [kind |-> "redirect", endpoint |-> ""]
      ELSE [kind |-> "none", endpoint |-> ""]

(* --------------------------- request schemas --------------------------- *)
Err(loc, rule) == [loc |-> loc, rule |-> rule]

Request(data, value, mode) == [data |-> data, value |-> value, analysisMode |-> mode]
NoRequest == Request(JAbsent, <<>>, <<>>)

(* Mutant: the minimum length is not enforced. *)
StrFieldErrors_NoMinLength(name, v, min_length) ==
  IF v.kind = "absent" THEN {Err(<<"body", name>>, "missing")}
  ELSE IF v.kind # "str" THEN {Err(<<"body", name>>, "type")}
  ELSE {}

(* A required str field with a minimum length. *)
StrFieldErrors(name, v, min_length) ==
  IF v.kind = "absent" THEN {Err(<<"body", name>>, "missing")}
  ELSE IF v.kind # "str" THEN {Err(<<"body", name>>, "type")}
  ELSE IF Len(v.str) < min_length THEN {Err(<<"body", name>>, "min_length")}
  ELSE {}

(* A required mapping field. *)
DictFieldErrors(name, v) ==
  IF v.kind = "absent" THEN {Err(<<"body", name>>, "missing")}
  ELSE IF v.kind # "map" THEN {Err(<<"body", name>>, "type")}
  ELSE {}

(* An optional str field. *)
OptStrFieldErrors(name, v) ==
  IF v.kind \notin {"absent", "str"} THEN {Err(<<"body", name>>, "type")} ELSE {}

VerifyRequest(body) ==
  IF ~body.present THEN [errors |-> {Err(<<"body">>, "missing")}, request |-> NoRequest]
  ELSE [errors |-> DictFieldErrors("data", body.data),
        request |-> Request(body.data, <<>>, <<>>)]

EncryptRequest(body) ==
  IF ~body.present THEN [errors |-> {Err(<<"body">>, "missing")}, request |-> NoRequest]
  ELSE [errors |-> StrFieldErrors("value", body.value, config.schemas.value_min_length),
        request |-> Request(JAbsent, body.value.str, <<>>)]

AnalyzeRequest(body) ==
  IF ~body.present THEN [errors |-> {Err(<<"body">>, "missing")}, request |-> NoRequest]
  ELSE [errors |-> StrFieldErrors("data", body.data, config.schemas.data_min_length)
                   \cup OptStrFieldErrors("analysisMode", body.analysisMode),
        request |-> Request(body.data, <<>>,
                            IF body.analysisMode.kind = "absent"
                            THEN config.schemas.default_mode
                            ELSE body.analysisMode.str)]

(* The request model a route declares; routes without one take no input.   *)
Validate(endpoint, body) ==
  CASE endpoint = "verify_data" -> VerifyRequest(body)
    [] endpoint = "encrypt_data" -> EncryptRequest(body)
    [] endpoint = "analyze_data" -> AnalyzeRequest(body)
    [] OTHER -> [errors |-> {}, request |-> NoRequest]

(* ---------------------------- response bodies -------------------------- *)
(* timestamp 0: the body has no timestamp.                                 *)
EmptyBody ==
  [ctype |-> "none", keys |-> {}, detail |-> "", errors |-> {}, text |-> "",
   message |-> "", status |-> "", version |-> "", verified |-> FALSE,
   checks_passed |-> <<>>, data_type |-> "", encryptedValue |-> <<>>,
   likelihood |-> 0, confidence |-> 0, predictions |-> <<>>,
   recommendations |-> <<>>, timestamp |-> 0]

JsonBody(keys) == [EmptyBody EXCEPT !.ctype = "json", !.keys = keys]
TextBody(text) == [EmptyBody EXCEPT !.ctype = "text", !.text = text]

(* ------------------------------- handlers ------------------------------ *)
(* Each returns the mapping its body builds; t is the clock it reads.      *)
root ==
  [JsonBody({"message", "status", "version"}) EXCEPT
     !.message = "Welcome to AstroShield API", !.status = "operational",
     !.version = "1.0.0"]

health_check(t) ==
  [JsonBody({"status", "timestamp"}) EXCEPT !.status = "healthy", !.timestamp = t]

(* Mutant: data["type"] is never read. *)
verify_data_IgnoresType(req, t) ==
  [JsonBody({"verified", "message", "details"}) EXCEPT
     !.verified = TRUE, !.message = "Data verification successful",
     !.timestamp = t,
     !.checks_passed = <<"format", "schema", "integrity">>,
     !.data_type = "unknown"]

verify_data(req, t) ==
  [JsonBody({"verified", "message", "details"}) EXCEPT
     !.verified = TRUE, !.message = "Data verification successful",
     !.timestamp = t,
     !.checks_passed = <<"format", "schema", "integrity">>,
     !.data_type = IF req.data.hasType THEN req.data.type ELSE "unknown"]

(* Mutant: the value is left out of encryptedValue. *)
encrypt_data_DropsValue(req, t) ==
  [JsonBody({"encryptedValue", "timestamp"}) EXCEPT
     !.encryptedValue = Prefix \o Str(t), !.timestamp = t]

encrypt_data(req, t) ==
  [JsonBody({"encryptedValue", "timestamp"}) EXCEPT
     !.encryptedValue = Prefix \o req.value \o <<"_">> \o Str(t),
     !.timestamp = t]

(* Mutant: only the default mode yields a prediction. *)
analyze_data_ByMode(req, t) ==
  [JsonBody({"analysisResult", "timestamp"}) EXCEPT
     !.likelihood = 85, !.confidence = 92,
     !.predictions = IF req.analysisMode = config.schemas.default_mode
                     THEN << [time |-> t, event |-> "orbital_maneuver", probability |-> 85] >>
                     ELSE <<>>,
     !.recommendations = <<"Monitor trajectory changes",
                           "Prepare for potential collision avoidance">>,
     !.timestamp = t]

(* Mutant: the likelihood is returned as a percentage. *)
analyze_data_Percent(req, t) ==
  [JsonBody({"analysisResult", "timestamp"}) EXCEPT
     !.likelihood = 85 * 100, !.confidence = 92,
     !.predictions = << [time |-> t, event |-> "orbital_maneuver", probability |-> 85] >>,
     !.recommendations = <<"Monitor trajectory changes",
                           "Prepare for potential collision avoidance">>,
     !.timestamp = t]

analyze_data(req, t) ==
  [JsonBody({"analysisResult", "timestamp"}) EXCEPT
     !.likelihood = 85, !.confidence = 92,
     !.predictions = << [time |-> t, event |-> "orbital_maneuver", probability |-> 85] >>,
     !.recommendations = <<"Monitor trajectory changes",
                           "Prepare for potential collision avoidance">>,
     !.timestamp = t]

(* The response model of a route, applied to what its handler returned.    *)
ResponseModelOK(endpoint, ret) ==
  IF endpoint = "analyze_data"
  THEN /\ config.schemas.likelihood_ge <= ret.likelihood
       /\ ret.likelihood <= config.schemas.likelihood_le
       /\ config.schemas.confidence_ge <= ret.confidence
       /\ ret.confidence <= config.schemas.confidence_le
  ELSE TRUE

(* ------------------------------ responses ------------------------------ *)
Response(status, headers, body) == [status |-> status, headers |-> headers, body |-> body]
NoResponse == Response(0, {}, EmptyBody)

ExcMsg == "boom"

(* What the handler step left: a returned mapping or a raised              *)
(* HTTPException(status_code=500, detail=str(e)).                          *)
Returned(body) == [kind |-> "return", body |-> body, detail |-> ""]
Raised(detail) == [kind |-> "raise", body |-> EmptyBody, detail |-> detail]
NoResult == [kind |-> "none", body |-> EmptyBody, detail |-> ""]

(* Mutant: the except clause swallows the exception. *)
Guarded_Swallows(f, ret) == Returned(ret)

(* A handler body run to its end, or cut short by an exception that its    *)
(* except clause turns into an HTTPException.                              *)
Guarded(f, ret) == IF f = "body" THEN Raised(ExcMsg) ELSE Returned(ret)

(* Mutant: errors are wrapped in an {error, detail} envelope. *)
HttpError_Envelope(status, detail) ==
  Response(status, {}, [JsonBody({"error", "detail"}) EXCEPT !.detail = detail])

HttpError(status, detail) ==
  Response(status, {}, [JsonBody({"detail"}) EXCEPT !.detail = detail])

ValidationError(errors) ==
  Response(422, {}, [JsonBody({"detail"}) EXCEPT !.errors = errors])

ServerError == Response(500, {}, TextBody("Internal Server Error"))

(* ----------------------------- CORS middleware ------------------------- *)
ACAO == "access-control-allow-origin"
ACAC == "access-control-allow-credentials"
ACAM == "access-control-allow-methods"
ACAH == "access-control-allow-headers"

ALL_METHODS == {"DELETE", "GET", "HEAD", "OPTIONS", "PATCH", "POST", "PUT"}
AllMethodsJoined == "DELETE, GET, HEAD, OPTIONS, PATCH, POST, PUT"

AllowAllOrigins == "*" \in config.cors.allow_origins
AllowedOrigin(origin) == AllowAllOrigins \/ origin \in config.cors.allow_origins
AllowedMethod(m) ==
  IF "*" \in config.cors.allow_methods THEN m \in ALL_METHODS
  ELSE m \in config.cors.allow_methods

IsPreflight(ev) ==
  ev.method = "OPTIONS" /\ ev.origin # "none" /\ ev.acrm # "none"

(* Mutant: the headers are added whether or not the request has an Origin. *)
SimpleHeaders_Always(ev) ==
  {<<ACAO, "*">>} \cup (IF config.cors.allow_credentials THEN {<<ACAC, "true">>} ELSE {})

(* Headers the middleware puts on a response that passes through it; a     *)
(* request without an Origin header bypasses the middleware.               *)
SimpleHeaders(ev) ==
  IF ev.origin = "none" THEN {}
  ELSE LET creds == IF config.cors.allow_credentials THEN {<<ACAC, "true">>} ELSE {}
       IN  IF AllowAllOrigins /\ ~ev.cookie THEN {<<ACAO, "*">>} \cup creds
           ELSE IF AllowedOrigin(ev.origin)
           THEN {<<ACAO, ev.origin>>, <<"vary", "Origin">>} \cup creds
           ELSE creds

CorsSend(ev, response) ==
  [response EXCEPT !.headers =
     {h \in @ : \A s \in SimpleHeaders(ev) : h[1] # s[1]} \cup SimpleHeaders(ev)]

(* The middleware's own answer to a preflight request (no                  *)
(* Access-Control-Request-Headers header is sent, so none is mirrored).    *)
PreflightResponse(ev) ==
  LET explicit == ~AllowAllOrigins \/ config.cors.allow_credentials
      origin == IF ~AllowedOrigin(ev.origin) THEN {}
                ELSE IF explicit THEN {<<ACAO, ev.origin>>, <<"vary", "Origin">>}
                ELSE {<<ACAO, "*">>}
      creds == IF config.cors.allow_credentials THEN {<<ACAC, "true">>} ELSE {}
      headers == origin \cup creds
                 \cup {<<ACAM, AllMethodsJoined>>, <<"access-control-max-age", "600">>}
  IN  IF AllowedOrigin(ev.origin) /\ AllowedMethod(ev.acrm)
      THEN Response(200, headers, TextBody("OK"))
      ELSE Response(400, headers, TextBody("Disallowed CORS method"))

(* ----------------------------- event adapter --------------------------- *)
Reply(response) ==
  [statusCode |-> response.status, headers |-> response.headers, body |-> response.body]
NoReply == Reply(NoResponse)

(* ------------------------------- state --------------------------------- *)
Faults == {"none", "body", "response"}

TypeOK ==
  /\ pc \in [Inv -> {"idle", "received", "returned", "replied"}]
  /\ fault \in [Inv -> Faults]
  /\ ran \in [Inv -> Handlers \cup {"none"}]
  /\ now \in 9..(9 + MaxTicks)

Init ==
  /\ pc = [i \in Inv |-> "idle"]
  /\ event = [i \in Inv |-> NoEvent]
  /\ fault = [i \in Inv |-> "none"]
  /\ request = [i \in Inv |-> NoRequest]
  /\ result = [i \in Inv |-> NoResult]
  /\ reply = [i \in Inv |-> NoReply]
  /\ outcome = [i \in Inv |-> "none"]
  /\ ran = [i \in Inv |-> "none"]
  /\ now = 9
  /\ config = AppConfig

(* The adapter is invoked with an event; f is how the run will be cut      *)
(* short by an exception, if at all.                                       *)
Receive(i, ev, f) ==
  /\ pc[i] = "idle"
  /\ pc' = [pc EXCEPT ![i] = "received"]
  /\ event' = [event EXCEPT ![i] = ev]
  /\ fault' = [fault EXCEPT ![i] = f]
  /\ UNCHANGED <<request, result, reply, outcome, ran, now, config>>

(* A step that ends the invocation with a finished reply. *)
Finish(i, response, kind) ==
  /\ pc' = [pc EXCEPT ![i] = "replied"]
  /\ reply' = [reply EXCEPT ![i] = Reply(response)]
  /\ outcome' = [outcome EXCEPT ![i] = kind]

Routed(i) == Resolve(event[i].method, event[i].path)
Dispatching(i) == pc[i] = "received" /\ ~IsPreflight(event[i])

Preflight(i) ==
  /\ pc[i] = "received"
  /\ IsPreflight(event[i])
  /\ Finish(i, PreflightResponse(event[i]),
            IF PreflightResponse(event[i]).status = 200
            THEN "preflight" ELSE "preflight_denied")
  /\ UNCHANGED <<event, fault, request, result, ran, now, config>>

NotFound(i) ==
  /\ Dispatching(i)
  /\ Routed(i).kind = "none"
  /\ Finish(i, CorsSend(event[i], HttpError(404, "Not Found")), "not_found")
  /\ UNCHANGED <<event, fault, request, result, ran, now, config>>

MethodNotAllowed(i) ==
  /\ Dispatching(i)
  /\ Routed(i).kind = "partial"
  /\ Finish(i, CorsSend(event[i], HttpError(405, "Method Not Allowed")),
            "method_not_allowed")
  /\ UNCHANGED <<event, fault, request, result, ran, now, config>>

RedirectSlashes(i) ==
  /\ Dispatching(i)
  /\ Routed(i).kind = "redirect"
  /\ Finish(i, CorsSend(event[i], Response(307, {}, EmptyBody)), "redirect")
  /\ UNCHANGED <<event, fault, request, result, ran, now, config>>

(* The generated documentation pages (docs_url, redoc_url, openapi_url).   *)
Docs(i) ==
  /\ Dispatching(i)
  /\ Routed(i).kind = "full"
  /\ Routed(i).endpoint \in DocEndpoints
  /\ Finish(i, CorsSend(event[i], Response(200, {},
               [EmptyBody EXCEPT !.ctype = IF Routed(i).endpoint = "openapi"
                                           THEN "json" ELSE "html"])), "docs")
  /\ UNCHANGED <<event, fault, request, result, ran, now, config>>

(* Mutant: the parsed body is kept in one process-wide place, so a handler *)
(* sees the body of the earliest invocation still waiting to be routed.   *)
Validated_Shared(i) ==
  Validate(Routed(i).endpoint,
           event[Least({j \in Inv : pc[j] = "received"} \cup {NumInv})].body)

Validated(i) == Validate(Routed(i).endpoint, event[i].body)

ValidationFailure(i) ==
  /\ Dispatching(i)
  /\ Routed(i).kind = "full"
  /\ Routed(i).endpoint \in Handlers
  /\ Validated(i).errors # {}
  /\ Finish(i, CorsSend(event[i], ValidationError(Validated(i).errors)), "validation")
  /\ UNCHANGED <<event, fault, request, result, ran, now, config>>

(* The route's request passed validation and its handler body runs.        *)
Call(i, endpoint, ret) ==
  /\ Dispatching(i)
  /\ Routed(i).kind = "full"
  /\ Routed(i).endpoint = endpoint
  /\ Validated(i).errors = {}
  /\ pc' = [pc EXCEPT ![i] = "returned"]
  /\ request' = [request EXCEPT ![i] = Validated(i).request]
  /\ result' = [result EXCEPT ![i] = Guarded(fault[i], ret)]
  /\ ran' = [ran EXCEPT ![i] = endpoint]
  /\ UNCHANGED <<event, fault, reply, outcome, now, config>>

Run_root(i) == Call(i, "root", root)
Run_health_check(i) == Call(i, "health_check", health_check(now))
Run_verify_data(i) == Call(i, "verify_data", verify_data(Validated(i).request, now))
Run_encrypt_data(i) == Call(i, "encrypt_data", encrypt_data(Validated(i).request, now))
Run_analyze_data(i) == Call(i, "analyze_data", analyze_data(Validated(i).request, now))

(* What becomes of the handler's result: a raised HTTPException is         *)
(* rendered inside the CORS middleware; a return value that fails          *)
(* response validation or serialization is an exception nothing handles,   *)
(* answered outside the CORS middleware; otherwise a 200.                  *)
Render(ev, endpoint, res, f) ==
  IF res.kind = "raise" THEN CorsSend(ev, HttpError(500, res.detail))
  ELSE IF f = "response" \/ ~ResponseModelOK(endpoint, res.body) THEN ServerError
  ELSE CorsSend(ev, Response(200, {}, res.body))

RenderKind(endpoint, res, f) ==
  IF res.kind = "raise" THEN "internal"
  ELSE IF f = "response" \/ ~ResponseModelOK(endpoint, res.body) THEN "unhandled"
  ELSE "ok"

Respond(i) ==
  /\ pc[i] = "returned"
  /\ Finish(i, Render(event[i], ran[i], result[i], fault[i]),
            RenderKind(ran[i], result[i], fault[i]))
  /\ UNCHANGED <<event, fault, request, result, ran, now, config>>

(* The invocation is over; nothing of it is kept. *)
Reset(i) ==
  /\ pc[i] = "replied"
  /\ pc' = [pc EXCEPT ![i] = "idle"]
  /\ event' = [event EXCEPT ![i] = NoEvent]
  /\ fault' = [fault EXCEPT ![i] = "none"]
  /\ request' = [request EXCEPT ![i] = NoRequest]
  /\ result' = [result EXCEPT ![i] = NoResult]
  /\ reply' = [reply EXCEPT ![i] = NoReply]
  /\ outcome' = [outcome EXCEPT ![i] = "none"]
  /\ ran' = [ran EXCEPT ![i] = "none"]
  /\ UNCHANGED <<now, config>>

Tick ==
  /\ now < 9 + MaxTicks
  /\ now' = now + 1
  /\ UNCHANGED <<pc, event, fault, request, result, reply, outcome, ran, config>>

Step(i) ==
  \/ Preflight(i)
  \/ NotFound(i)
  \/ MethodNotAllowed(i)
  \/ RedirectSlashes(i)
  \/ Docs(i)
  \/ ValidationFailure(i)
  \/ Run_root(i)
  \/ Run_health_check(i)
  \/ Run_verify_data(i)
  \/ Run_encrypt_data(i)
  \/ Run_analyze_data(i)
  \/ Respond(i)
  \/ Reset(i)

(* One invocation at a time, no exception. *)
Next ==
  \/ \E ev \in Events : Receive(1, ev, "none")
  \/ Step(1)
  \/ Tick

Spec == Init /\ [][Next]_vars

(* One invocation at a time, any step of which may raise. *)
NextFault ==
  \/ \E ev \in Events, f \in Faults : Receive(1, ev, f)
  \/ Step(1)
  \/ Tick

SpecFault == Init /\ [][NextFault]_vars

(* Concurrent invocations of the routes that run a handler. *)
ConcEvents ==
  { Event("GET", Path(<<"health">>, FALSE), "none", FALSE, "none", NoBody),
    Event("POST", Path(<<"verify">>, FALSE), Origin, FALSE, "none",
          Body(TRUE, JAbsent, JMap(TRUE, "tle"), JAbsent)),
    Event("POST", Path(<<"encrypt">>, FALSE), "none", FALSE, "none",
          Body(TRUE, JStr(<<"a">>), JAbsent, JAbsent)),
    Event("POST", Path(<<"encrypt">>, FALSE), Origin, TRUE, "none",
          Body(TRUE, JStr(<<>>), JAbsent, JAbsent)),
    Event("POST", Path(<<"analyze">>, FALSE), Origin, FALSE, "none",
          Body(TRUE, JAbsent, JStr(<<"a">>), JAbsent)),
    Event("POST", Path(<<"analyze">>, FALSE), Origin, FALSE, "none",
          Body(TRUE, JAbsent, JStr(<<"a">>), JStr(<<"a">>))) }

StepConc(i) ==
  \/ ValidationFailure(i)
  \/ Run_health_check(i)
  \/ Run_verify_data(i)
  \/ Run_encrypt_data(i)
  \/ Run_analyze_data(i)
  \/ Respond(i)
  \/ Reset(i)

NextConc ==
  \/ \E i \in Inv, ev \in ConcEvents : Receive(i, ev, "none")
  \/ \E i \in Inv : StepConc(i)
  \/ Tick

SpecConc == Init /\ [][NextConc]_vars

(* ============================== properties ============================= *)
Replied(i) == pc[i] = "replied"
HeaderNames(i) == {h[1] : h \in reply[i].headers}
CorsNames == {ACAO, ACAC, ACAM, ACAH}

VerifyPath == Path(<<"verify">>, FALSE)
EncryptPath == Path(<<"encrypt">>, FALSE)
AnalyzePath == Path(<<"analyze">>, FALSE)
HealthPath == Path(<<"health">>, FALSE)

Posted(i, path) == event[i].method = "POST" /\ event[i].path = path

(* The fields of a JSON-object body that break the route's request schema, *)
(* read off the schema declarations.                                       *)
BadStr(v) == v.kind # "str" \/ Len(v.str) = 0
Offending(ev) ==
  IF ev.path = VerifyPath
  THEN IF ev.body.data.kind # "map" THEN {"data"} ELSE {}
  ELSE IF ev.path = EncryptPath
  THEN IF BadStr(ev.body.value) THEN {"value"} ELSE {}
  ELSE (IF BadStr(ev.body.data) THEN {"data"} ELSE {})
       \cup (IF ev.body.analysisMode.kind \in {"absent", "str"}
             THEN {} ELSE {"analysisMode"})

SchemaPost(i) ==
  event[i].method = "POST" /\ event[i].path \in {VerifyPath, EncryptPath, AnalyzePath}

Invalid(i) == SchemaPost(i) /\ (~event[i].body.present \/ Offending(event[i]) # {})

NamedFields(i) == {e.loc[2] : e \in {x \in reply[i].body.errors : Len(x.loc) = 2}}

(* C1 as stated: a request that violates its route's schema is answered    *)
(* with status 400, the body names each offending field, and the handler   *)
(* body is not executed.                                                   *)
C1_Original ==
  \A i \in Inv : (Replied(i) /\ Invalid(i)) =>
    /\ reply[i].statusCode = 400
    /\ event[i].body.present => NamedFields(i) = Offending(event[i])
    /\ ran[i] = "none"

(* C1 amended: a request that violates its route's schema is answered with *)
(* status 422; the body's detail lists exactly the offending fields of a   *)
(* JSON-object body (a missing body is reported as "body" itself); and the *)
(* handler body is not executed.                                           *)
C1_Amended ==
  \A i \in Inv : (pc[i] # "idle" /\ Invalid(i)) =>
    /\ ran[i] = "none"
    /\ result[i] = NoResult
    /\ Replied(i) =>
         /\ reply[i].statusCode = 422
         /\ reply[i].body.ctype = "json"
         /\ IF event[i].body.present
            THEN NamedFields(i) = Offending(event[i])
            ELSE reply[i].body.errors = {Err(<<"body">>, "missing")}

C1_Witness ==
  \E i \in Inv :
    /\ Replied(i) /\ Posted(i, AnalyzePath)
    /\ event[i].body.data = JStr(<<>>) /\ event[i].body.analysisMode = JList
    /\ reply[i].statusCode = 422
    /\ NamedFields(i) = {"data", "analysisMode"}

(* C2 as stated: every reply carries the four headers                      *)
(* Access-Control-Allow-Origin: *, Access-Control-Allow-Credentials: true, *)
(* Access-Control-Allow-Methods: * and Access-Control-Allow-Headers: *.    *)
C2_Original ==
  \A i \in Inv : Replied(i) =>
    {<<ACAO, "*">>, <<ACAC, "true">>, <<ACAM, "*">>, <<ACAH, "*">>}
      \subseteq reply[i].headers

(* C2 amended: a reply to an event without an Origin header, and the 500   *)
(* sent for an exception nothing handled, carry none of the four headers.  *)
(* Any other reply to a request with an Origin header carries              *)
(* Access-Control-Allow-Credentials: true and Access-Control-Allow-Origin, *)
(* whose value is the wildcard for a request without a Cookie header, the  *)
(* request's origin otherwise, and always the origin on a preflight reply; *)
(* Access-Control-Allow-Methods is carried by preflight replies only, as   *)
(* the list of the seven methods, and Access-Control-Allow-Headers by no   *)
(* reply to a request that sends no Access-Control-Request-Headers.        *)
C2_Amended ==
  \A i \in Inv : Replied(i) =>
    IF event[i].origin = "none" \/ outcome[i] = "unhandled"
    THEN HeaderNames(i) \cap CorsNames = {}
    ELSE /\ <<ACAC, "true">> \in reply[i].headers
         /\ \A h \in reply[i].headers :
              /\ h[1] = ACAO =>
                   h[2] = IF event[i].cookie \/ IsPreflight(event[i])
                          THEN event[i].origin ELSE "*"
              /\ h[1] = ACAM => h[2] = AllMethodsJoined
         /\ ACAO \in HeaderNames(i)
         /\ ACAM \in HeaderNames(i) <=> IsPreflight(event[i])
         /\ ACAH \notin HeaderNames(i)

C2_Witness ==
  \E i \in Inv :
    /\ Replied(i) /\ event[i].origin = "none"
    /\ reply[i].statusCode = 200 /\ ran[i] = "health_check"
    /\ reply[i].headers = {}

(* ------------------------------------------------------------------ C3 *)
ApiPairs ==
  {<<"GET", RootPath, "root">>, <<"GET", HealthPath, "health_check">>,
   <<"POST", VerifyPath, "verify_data">>, <<"POST", EncryptPath, "encrypt_data">>,
   <<"POST", AnalyzePath, "analyze_data">>}
DocPaths == {Path(<<"openapi.json">>, FALSE), Path(<<"docs">>, FALSE),
             Path(<<"docs", "oauth2-redirect">>, FALSE), Path(<<"redoc">>, FALSE)}
KnownPaths == {p[2] : p \in ApiPairs} \cup DocPaths

Registered(i) == \E p \in ApiPairs : p[1] = event[i].method /\ p[2] = event[i].path
OwnHandler(i) ==
  (CHOOSE p \in ApiPairs : p[1] = event[i].method /\ p[2] = event[i].path)[3]

(* A registered pair reaches its own handler and no other (or none, when   *)
(* its request fails validation).                                          *)
ReachesOwn(i) ==
  /\ ran[i] = IF outcome[i] = "validation" THEN "none" ELSE OwnHandler(i)
  /\ outcome[i] = "validation" => Invalid(i)

(* C3 as stated: the five registered pairs reach their own handler; every  *)
(* other (method, path) gets status 404 and runs no handler.               *)
C3_Original ==
  \A i \in Inv : Replied(i) =>
    IF Registered(i) THEN ReachesOwn(i)
    ELSE reply[i].statusCode = 404 /\ ran[i] = "none"

(* C3 amended: the five registered pairs reach their own handler; every    *)
(* other request runs no handler and is answered: by the CORS middleware   *)
(* when it is a preflight (200 or 400); with 200 when it is GET on a       *)
(* generated documentation path; with 405 when its path is registered      *)
(* under another method; with 307 when its path matches a registered one   *)
(* but for a trailing slash; and with 404 otherwise.                       *)
C3_Amended ==
  \A i \in Inv : Replied(i) =>
    IF Registered(i) THEN ReachesOwn(i)
    ELSE /\ ran[i] = "none"
         /\ reply[i].statusCode =
              IF IsPreflight(event[i])
              THEN (IF event[i].acrm \in ALL_METHODS THEN 200 ELSE 400)
              ELSE IF event[i].path \in DocPaths /\ event[i].method \in {"GET", "HEAD"}
              THEN 200
              ELSE IF event[i].path \in KnownPaths THEN 405
              ELSE IF event[i].path # RootPath /\ ToggleSlash(event[i].path) \in KnownPaths
              THEN 307
              ELSE 404

C3_Witness ==
  \E i \in Inv :
    /\ Replied(i) /\ event[i].method = "GET" /\ event[i].path = VerifyPath
    /\ reply[i].statusCode = 405 /\ ran[i] = "none"

(* ------------------------------------------------------------------ C4 *)
Failure(i) == Replied(i) /\ reply[i].statusCode >= 400
JsonDetail(i) == reply[i].body.ctype = "json" /\ reply[i].body.keys = {"detail"}

(* C4 as stated: every failure reply is a validation, not-found or         *)
(* internal failure with status 400, 404 or 500 respectively and a JSON    *)
(* object body holding both an error key and a detail key.                 *)
C4_Original ==
  \A i \in Inv : Failure(i) =>
    /\ \/ outcome[i] = "validation" /\ reply[i].statusCode = 400
       \/ outcome[i] = "not_found" /\ reply[i].statusCode = 404
       \/ outcome[i] \in {"internal", "unhandled"} /\ reply[i].statusCode = 500
    /\ reply[i].body.ctype = "json"
    /\ {"error", "detail"} \subseteq reply[i].body.keys

(* C4 amended: every failure reply is of exactly one of six kinds with a   *)
(* fixed status: validation 422, not found 404, method not allowed 405,    *)
(* internal (an exception caught in a handler) 500, each with a JSON       *)
(* object body whose only key is detail; and an exception nothing handled  *)
(* 500, a refused preflight 400, each with a plain-text body.  No failure  *)
(* body has an error key.                                                  *)
C4_Amended ==
  \A i \in Inv : Failure(i) =>
    /\ "error" \notin reply[i].body.keys
    /\ \/ /\ outcome[i] = "validation" /\ reply[i].statusCode = 422
          /\ JsonDetail(i) /\ reply[i].body.errors # {}
       \/ /\ outcome[i] = "not_found" /\ reply[i].statusCode = 404
          /\ JsonDetail(i) /\ reply[i].body.detail = "Not Found"
       \/ /\ outcome[i] = "method_not_allowed" /\ reply[i].statusCode = 405
          /\ JsonDetail(i) /\ reply[i].body.detail = "Method Not Allowed"
       \/ /\ outcome[i] = "internal" /\ reply[i].statusCode = 500
          /\ JsonDetail(i) /\ reply[i].body.detail = ExcMsg
       \/ /\ outcome[i] = "unhandled" /\ reply[i].statusCode = 500
          /\ reply[i].body.ctype = "text"
       \/ /\ outcome[i] = "preflight_denied" /\ reply[i].statusCode = 400
          /\ reply[i].body.ctype = "text"

C4_Witness ==
  \E i \in Inv :
    /\ Failure(i) /\ outcome[i] = "internal" /\ ran[i] = "verify_data"
    /\ reply[i].statusCode = 500 /\ reply[i].body.keys = {"detail"}

(* ------------------------------------------------------------------ C5 *)
ValidVerify(i) ==
  Posted(i, VerifyPath) /\ event[i].body.present /\ event[i].body.data.kind = "map"

(* C5: every valid VerifyRequest is answered 200 with verified true,       *)
(* checks_passed = <<format, schema, integrity>> and data_type equal to    *)
(* data["type"] when that key is present, "unknown" otherwise.             *)
C5_Verify ==
  \A i \in Inv : (Replied(i) /\ ValidVerify(i)) =>
    /\ reply[i].statusCode = 200
    /\ reply[i].body.verified = TRUE
    /\ reply[i].body.checks_passed = <<"format", "schema", "integrity">>
    /\ reply[i].body.data_type =
         IF event[i].body.data.hasType THEN event[i].body.data.type ELSE "unknown"

C5_Witness ==
  \E i \in Inv :
    /\ Replied(i) /\ ValidVerify(i)
    /\ event[i].body.data = JMap(TRUE, "tle")
    /\ reply[i].statusCode = 200 /\ reply[i].body.data_type = "tle"

(* ------------------------------------------------------------------ C6 *)
StrEncrypt(i) ==
  Posted(i, EncryptPath) /\ event[i].body.present /\ event[i].body.value.kind = "str"

(* C6: a value of length >= 1 is answered 200 with an encryptedValue that  *)
(* is not empty, starts with the prefix and contains the value; a value of *)
(* length 0 is a validation failure and no encryptedValue is produced at   *)
(* any step.                                                               *)
C6_Encrypt ==
  \A i \in Inv : (pc[i] # "idle" /\ StrEncrypt(i)) =>
    IF Len(event[i].body.value.str) >= 1
    THEN Replied(i) =>
           /\ reply[i].statusCode = 200
           /\ reply[i].body.encryptedValue # <<>>
           /\ IsPrefix(Prefix, reply[i].body.encryptedValue)
           /\ Contains(reply[i].body.encryptedValue, event[i].body.value.str)
    ELSE /\ result[i] = NoResult
         /\ ran[i] = "none"
         /\ Replied(i) =>
              /\ outcome[i] = "validation"
              /\ reply[i].statusCode >= 400
              /\ reply[i].body.encryptedValue = <<>>

C6_Witness ==
  \E i \in Inv :
    /\ Replied(i) /\ StrEncrypt(i)
    /\ Len(event[i].body.value.str) = MaxLen
    /\ reply[i].statusCode = 200
    /\ Len(reply[i].body.encryptedValue) > Len(Prefix) + MaxLen

(* ------------------------------------------------------------------ C7 *)
ValidAnalyze(i) ==
  /\ Posted(i, AnalyzePath) /\ event[i].body.present
  /\ event[i].body.data.kind = "str" /\ Len(event[i].body.data.str) >= 1
  /\ event[i].body.analysisMode.kind \in {"absent", "str"}

(* The analysisResult without its clock-derived time. *)
AnalysisResult(i) ==
  [likelihood |-> reply[i].body.likelihood,
   confidence |-> reply[i].body.confidence,
   predictions |-> [k \in DOMAIN reply[i].body.predictions |->
                      [event |-> reply[i].body.predictions[k].event,
                       probability |-> reply[i].body.predictions[k].probability]],
   recommendations |-> reply[i].body.recommendations]

(* C7: every valid AnalyzeRequest is answered 200 with exactly one         *)
(* prediction, whose event is orbital_maneuver, and two requests that      *)
(* differ only in analysisMode (given or defaulted) get the same           *)
(* analysisResult apart from timestamps.                                   *)
C7_Analyze ==
  /\ \A i \in Inv : (Replied(i) /\ ValidAnalyze(i)) =>
       /\ reply[i].statusCode = 200
       /\ Len(reply[i].body.predictions) = 1
       /\ reply[i].body.predictions[1].event = "orbital_maneuver"
  /\ \A i, j \in Inv :
       (/\ Replied(i) /\ ValidAnalyze(i) /\ Replied(j) /\ ValidAnalyze(j)
        /\ event[i].body.data = event[j].body.data) =>
       AnalysisResult(i) = AnalysisResult(j)

C7_Witness ==
  \E i, j \in Inv :
    /\ Replied(i) /\ ValidAnalyze(i) /\ Replied(j) /\ ValidAnalyze(j)
    /\ event[i].body.data = event[j].body.data
    /\ event[i].body.analysisMode = JAbsent
    /\ event[j].body.analysisMode = JStr(<<"a">>)
    /\ request[i].analysisMode = DefaultMode
    /\ reply[i].body.timestamp # reply[j].body.timestamp
    /\ reply[i].statusCode = 200 /\ reply[j].statusCode = 200

(* ------------------------------------------------------------------ C8 *)
(* C8: no 200 reply of POST /analyze carries a likelihood or confidence    *)
(* outside [0, 1] (hundredths: [0, 100]), and the values the handler       *)
(* returns pass the response schema: a valid request is answered 200.      *)
C8_Bounds ==
  \A i \in Inv : (Replied(i) /\ Posted(i, AnalyzePath)) =>
    /\ reply[i].statusCode = 200 =>
         /\ 0 <= reply[i].body.likelihood /\ reply[i].body.likelihood <= 100
         /\ 0 <= reply[i].body.confidence /\ reply[i].body.confidence <= 100
    /\ ValidAnalyze(i) => reply[i].statusCode = 200 /\ outcome[i] = "ok"

C8_Witness ==
  \E i \in Inv :
    /\ Replied(i) /\ Posted(i, AnalyzePath) /\ reply[i].statusCode = 200
    /\ reply[i].body.likelihood = 85 /\ reply[i].body.confidence = 92

(* ------------------------------------------------------------------ C9 *)
(* A reply without its clock-derived values. *)
Redact(r) ==
  [r EXCEPT !.body.timestamp = 0,
            !.body.encryptedValue = StripDigits(@),
            !.body.predictions = [k \in DOMAIN @ |-> [@[k] EXCEPT !.time = 0]]]

(* C9: under any interleaving, two invocations with the same event get     *)
(* the same reply apart from clock-derived values, whatever else ran       *)
(* before or beside them, and the configuration is never changed.          *)
C9_Isolation ==
  /\ config = AppConfig
  /\ \A i, j \in Inv :
       (Replied(i) /\ Replied(j) /\ event[i] = event[j]) =>
       Redact(reply[i]) = Redact(reply[j])

C9_Witness ==
  \E i, j \in Inv :
    /\ i # j /\ Replied(i) /\ Replied(j) /\ event[i] = event[j]
    /\ Posted(i, EncryptPath) /\ reply[i].statusCode = 200
    /\ reply[i].body.timestamp # reply[j].body.timestamp
    /\ reply[i] # reply[j]

(* ----------------------------------------------------------------- C10 *)
Raising(i) == ran[i] # "none" /\ fault[i] # "none"

(* C10 as stated: an exception raised in the handler body or while the     *)
(* return value is validated and serialized gives status 500 and a body    *)
(* that contains the exception's detail string.                            *)
C10_Original ==
  \A i \in Inv : (Replied(i) /\ Raising(i)) =>
    /\ reply[i].statusCode = 500
    /\ reply[i].body.detail = ExcMsg

(* C10 amended: an exception raised in the handler body gives status 500   *)
(* and a JSON body whose detail is the exception's string; an exception    *)
(* raised while the return value is validated and serialized gives status  *)
(* 500 with the plain text "Internal Server Error" and no detail; in both  *)
(* cases the invocation can always go on to a finished reply.              *)
C10_Amended ==
  \A i \in Inv :
    /\ (Replied(i) /\ ran[i] # "none" /\ fault[i] = "body") =>
         /\ reply[i].statusCode = 500
         /\ reply[i].body.ctype = "json"
         /\ reply[i].body.detail = ExcMsg
    /\ (Replied(i) /\ ran[i] # "none" /\ fault[i] = "response") =>
         /\ reply[i].statusCode = 500
         /\ reply[i].body.ctype = "text"
         /\ reply[i].body.text = "Internal Server Error"
         /\ reply[i].body.detail = ""
    /\ pc[i] \in {"received", "returned"} => ENABLED Step(i)

C10_Witness ==
  \E i \in Inv :
    /\ Replied(i) /\ ran[i] = "analyze_data" /\ fault[i] = "response"
    /\ reply[i].statusCode = 500 /\ reply[i].body.ctype = "text"

====
